---- MODULE Spec2Model ----
(***************************************************************************)
(* A model of the sn_messaging protocol layer: group configuration,        *)
(* query/response shaping, typed extraction, the wire envelope and the     *)
(* processing-error path.  The layer is a set of values and functions over *)
(* them; each function is an operator translated from its Rust source and  *)
(* each specification below drives a family of them from bounded inputs.   *)
(***************************************************************************)
EXTENDS Integers, Sequences, FiniteSets, TLC

VARIABLES
    last,    \* the most recent call: its name, its arguments and what it returned
    known,   \* what an earlier call gave: the [name, id] of the successful
             \* GroupConfig::new before the last call, or the [bytes, out] of
             \* the first decoding of a message that is sent twice, or the
             \* arguments the held GroupConfig was built from
    wire,    \* the bytes in flight, with the logical message they were produced from
    issued,  \* every MessageId that exists so far
    msg,     \* the ProcessMsg a recipient holds
    errs,    \* the ProcessingErrors created so far, in order
    outbox,  \* the message a sender is about to put on the wire
    held     \* the one protocol value a holder keeps and calls operations on

vars == <<last, known, wire, issued, msg, errs, outbox, held>>

(***************************************************************************)
(* Result<T, E> and Option<T>.                                             *)
(***************************************************************************)
Ok(v) == [ok |-> TRUE, val |-> v]

Err(e) == [ok |-> FALSE, err |-> e]

Some(v) == [some |-> TRUE, val |-> v]

None == [some |-> FALSE]

Idle == [op |-> "idle"]

(***************************************************************************)
(* client::Error, as far as its variants appear in the sources.            *)
(***************************************************************************)
Errors == {"InvalidOperation", "NoSuchData", "AccessDenied"}

(***************************************************************************)
(* Group messaging: GroupConfig (client/messaging.rs).                     *)
(***************************************************************************)

\* Longest name handed to GroupConfig::new
MaxNameLen == 3

\* The bytes names are made of ("a", "b")
Alphabet == {97, 98}

Names == UNION {[1..n -> Alphabet] : n \in 0..MaxNameLen}

Owners == {"alice", "bob"}

MsgTypes == {1, 2}

\* "GroupId".as_bytes()
GroupIdTag == <<71, 114, 111, 117, 112, 73, 100>>

\* MsgSettings values; the msg_type field is free of the key it is stored under
SettingsVals ==
    { [msg_type |-> 1, schema |-> None, cost_scheme |-> [kind |-> "None", key |-> "-", cost |-> 0],
       sent_to |-> "Either", sent_by |-> "Producer"],
      [msg_type |-> 2, schema |-> None, cost_scheme |-> [kind |-> "Section", key |-> "-", cost |-> 1],
       sent_to |-> "Consumer", sent_by |-> "Both"] }

\* BTreeMap<u16, MsgSettings>
MsgMaps == UNION {[K -> SettingsVals] : K \in SUBSET MsgTypes}

RECURSIVE Flatten(_)
Flatten(parts) ==
    IF parts = <<>> THEN <<>> ELSE Head(parts) \o Flatten(Tail(parts))

\* XorName::from_content(&[..]): the SHA3-256 digest of the slices fed in order
XorName_from_content(parts) == [sha3 |-> Flatten(parts)]

GroupConfig_id_from_NoTag(name) ==
    IF 3 > Len(name)
    THEN Err("InvalidOperation")
    ELSE Ok(XorName_from_content(<<name>>))

GroupConfig_id_from(name) ==
    IF 3 > Len(name)
    THEN Err("InvalidOperation")
    ELSE Ok(XorName_from_content(<<GroupIdTag, name>>))

GroupConfig_new_NoEmptyCheck(name, owner, msgs) ==
    LET r == GroupConfig_id_from(name) IN
    IF ~r.ok
    THEN Err(r.err)
    ELSE Ok([id |-> r.val, name |-> name, owner |-> owner, msgs |-> msgs])

GroupConfig_new(name, owner, msgs) ==
    IF DOMAIN msgs = {}
    THEN Err("InvalidOperation")
    ELSE LET r == GroupConfig_id_from(name) IN
         IF ~r.ok
         THEN Err(r.err)
         ELSE Ok([id |-> r.val, name |-> name, owner |-> owner, msgs |-> msgs])

Init ==
    /\ last = Idle
    /\ known = None
    /\ wire = None
    /\ issued = {}
    /\ msg = None
    /\ errs = <<>>
    /\ outbox = None
    /\ held = None

\* A caller builds a group configuration.
GroupConfigNew ==
    \E name \in Names, owner \in Owners, msgs \in MsgMaps :
        /\ last' = [op |-> "GroupConfig::new", name |-> name, owner |-> owner,
                    msgs |-> msgs, out |-> GroupConfig_new(name, owner, msgs)]
        /\ known' = IF last.op = "GroupConfig::new" /\ last.out.ok
                    THEN Some([name |-> last.name, id |-> last.out.val.id])
                    ELSE known
        /\ UNCHANGED <<wire, issued, msg, errs, outbox, held>>

NextGroup == GroupConfigNew

SpecGroup == Init /\ [][NextGroup]_vars

\* C1: GroupConfig::new fails with InvalidOperation exactly when the name is
\* shorter than 3 bytes or the settings are empty, and otherwise succeeds; a
\* failing call yields an error only, and no GroupConfig.
C1_NewValidates ==
    last.op = "GroupConfig::new" =>
        IF Len(last.name) < 3 \/ DOMAIN last.msgs = {}
        THEN last.out = Err("InvalidOperation")
        ELSE /\ last.out.ok
             /\ last.out.val.name = last.name
             /\ last.out.val.owner = last.owner
             /\ last.out.val.msgs = last.msgs

\* Both causes of failure at once: a short name with empty settings.
C1_Witness ==
    /\ last.op = "GroupConfig::new"
    /\ Len(last.name) < 3
    /\ DOMAIN last.msgs = {}
    /\ ~last.out.ok

\* C2: the id of every accepted config is the hash of "GroupId" followed by
\* the name, whatever the owner and the settings, and equals the id an earlier
\* call gave the same name.
C2_IdFromName ==
    (last.op = "GroupConfig::new" /\ last.out.ok) =>
        /\ last.out.val.id = [sha3 |-> GroupIdTag \o last.name]
        /\ (known.some /\ known.val.name = last.name) => known.val.id = last.out.val.id

\* The same name accepted twice in a row.
C2_Witness ==
    /\ last.op = "GroupConfig::new"
    /\ last.out.ok
    /\ known.some
    /\ known.val.name = last.name

(***************************************************************************)
(* Queries, their error responses and typed extraction                     *)
(* (client/query.rs, client/messaging.rs, client/mod.rs).                  *)
(***************************************************************************)

\* The variants the QueryResponse enum declares
QueryResponseVariants ==
    { "GetBlob",
      "GetMap", "GetMapShell", "GetMapVersion", "ListMapEntries", "ListMapKeys",
      "ListMapValues", "ListMapUserPermissions", "ListMapPermissions", "GetMapValue",
      "GetSequence", "GetSequenceRange", "GetSequenceLastEntry",
      "GetSequencePublicPolicy", "GetSequencePrivatePolicy", "GetSequenceUserPermissions",
      "GetRegister", "GetRegisterOwner", "ReadRegister", "GetRegisterPolicy",
      "GetRegisterUserPermissions",
      "GetBalance", "GetHistory", "GetStoreCost" }

\* What a response carries on success (an opaque payload of the variant's type)
Payloads == {1, 2}

Results == {Ok(v) : v \in Payloads} \cup {Err(e) : e \in Errors}

QueryResponses == [variant : QueryResponseVariants, res : Results]

\* 256-bit names used as addresses
XorNames == {[sha3 |-> <<1>>], [sha3 |-> <<2>>]}

\* The reads a DataQuery holds, each named after the response it asks for
DataReads ==
    QueryResponseVariants \ {"GetBalance", "GetHistory", "GetStoreCost"}

DataQueries == [read : DataReads, name : XorNames]

\* DataQuery::error: the response variant of the read, holding the error
DataQuery_error(q, error) == [variant |-> q.read, res |-> Err(error)]

Queries ==
    [variant : {"Data"}, q : DataQueries]
        \cup [variant : {"GetStoreCost"}, bytes : {0, 1}, data_name : XorNames]

Query_error(self, error) ==
    IF self.variant = "Data"
    THEN DataQuery_error(self.q, error)
    ELSE [variant |-> "GetStoreCost", res |-> Err(error)]

GroupQueries == [variant : {"GetConfig"}, group_id : XorNames]

GPMGroupQuery_error(self, error) ==
    [variant |-> "GetGroupConfig", res |-> Err(error)]

\* TryFromError
WrongType == [kind |-> "WrongType"]

Response(e) == [kind |-> "Response", err |-> e]

\* The instantiations of try_from!: the target type and the variants it accepts
TryFromInstances ==
    { <<"Blob", {"GetBlob"}>>,
      <<"Map", {"GetMap", "GetMapShell"}>>,
      <<"u64", {"GetMapVersion"}>>,
      <<"MapEntries", {"ListMapEntries"}>>,
      <<"BTreeSet<Vec<u8>>", {"ListMapKeys"}>>,
      <<"MapValues", {"ListMapValues"}>>,
      <<"MapPermissionSet", {"ListMapUserPermissions"}>>,
      <<"BTreeMap<PublicKey, MapPermissionSet>", {"ListMapPermissions"}>>,
      <<"MapValue", {"GetMapValue"}>>,
      <<"Sequence", {"GetSequence"}>>,
      <<"SequenceEntries", {"GetSequenceRange"}>>,
      <<"(u64, SequenceEntry)", {"GetSequenceLastEntry"}>>,
      <<"SequencePublicPolicy", {"GetSequencePublicPolicy"}>>,
      <<"SequencePrivatePolicy", {"GetSequencePrivatePolicy"}>>,
      <<"SequencePermissions", {"GetSequenceUserPermissions"}>>,
      <<"Register", {"GetRegister"}>>,
      <<"PublicKey", {"GetRegisterOwner"}>>,
      <<"BTreeSet<(EntryHash, Entry)>", {"ReadRegister"}>>,
      <<"Policy", {"GetRegisterPolicy"}>>,
      <<"Permissions", {"GetRegisterUserPermissions"}>>,
      <<"Token", {"GetBalance"}>>,
      <<"ActorHistory", {"GetHistory"}>> }

try_from_ErrAsWrongType(variants, response) ==
    IF response.variant \in variants /\ response.res.ok
    THEN Ok(response.res.val)
    ELSE Err(WrongType)

try_from_AlsoStoreCost(variants, response) ==
    IF response.variant \in variants \cup {"GetStoreCost"}
    THEN IF response.res.ok
         THEN Ok(response.res.val)
         ELSE Err(Response(response.res.err))
    ELSE Err(WrongType)

\* The body try_from! generates for one target type
try_from(variants, response) ==
    IF response.variant \in variants
    THEN IF response.res.ok
         THEN Ok(response.res.val)
         ELSE Err(Response(response.res.err))
    ELSE Err(WrongType)

\* A recipient shapes the error response of a query.
QueryError ==
    \E q \in Queries, e \in Errors :
        /\ last' = [op |-> "Query::error", self |-> q, error |-> e,
                    out |-> Query_error(q, e)]
        /\ UNCHANGED <<known, wire, issued, msg, errs, outbox, held>>

\* A group shapes the error response of a group query.
GroupQueryError ==
    \E q \in GroupQueries, e \in Errors :
        /\ last' = [op |-> "GPMGroupQuery::error", self |-> q, error |-> e,
                    out |-> GPMGroupQuery_error(q, e)]
        /\ UNCHANGED <<known, wire, issued, msg, errs, outbox, held>>

\* A caller extracts a typed payload from a response.
TryFrom ==
    \E inst \in TryFromInstances, r \in QueryResponses :
        /\ last' = [op |-> "try_from", type |-> inst[1], response |-> r,
                    out |-> try_from(inst[2], r)]
        /\ UNCHANGED <<known, wire, issued, msg, errs, outbox, held>>

NextQuery == QueryError \/ GroupQueryError \/ TryFrom

SpecQuery == Init /\ [][NextQuery]_vars

\* The response variant a query is paired with
PairedVariant(q) ==
    CASE q.variant = "Data" -> q.q.read
      [] q.variant = "GetStoreCost" -> "GetStoreCost"
      [] q.variant = "GetConfig" -> "GetGroupConfig"

\* C3: error() of every query, the group query included, returns the
\* QueryResponse variant paired with the query, holding Err of the error given.
C3_ErrorReturnsPairedVariant ==
    last.op \in {"Query::error", "GPMGroupQuery::error"} =>
        /\ last.out.variant \in QueryResponseVariants
        /\ last.out.variant = PairedVariant(last.self)
        /\ last.out.res = Err(last.error)

\* The variants the extraction of a target type expects
ExpectedFor(type) ==
    UNION {inst[2] : inst \in {i \in TryFromInstances : i[1] = type}}

\* C4: extraction returns the payload of an expected variant holding Ok, the
\* embedded error of an expected variant holding Err, and WrongType for any
\* other variant.
C4_Extraction ==
    last.op = "try_from" =>
        IF last.response.variant \in ExpectedFor(last.type)
        THEN IF last.response.res.ok
             THEN last.out = Ok(last.response.res.val)
             ELSE last.out = Err(Response(last.response.res.err))
        ELSE last.out = Err(WrongType)

\* A Map is extracted from the second variant it accepts, which holds an error.
C4_Witness ==
    /\ last.op = "try_from"
    /\ last.type = "Map"
    /\ last.response.variant = "GetMapShell"
    /\ ~last.response.res.ok
    /\ ~last.out.ok
    /\ last.out.err.kind = "Response"

\* The operation a query asks for: the read of a data query, else the variant
QueryKind(q) ==
    IF q.variant = "Data" THEN q.q.read ELSE q.variant

\* error() of any query, the client queries and the group query alike
AnyQuery_error(q, e) ==
    IF q.variant = "GetConfig" THEN GPMGroupQuery_error(q, e) ELSE Query_error(q, e)

\* C11: the pairing of queries and responses is total and bijective: error()
\* of a query returns a variant the QueryResponse enum declares, queries of
\* distinct kinds get distinct variants, and every response variant is the
\* image of some query and is accepted by some typed extraction.
C11_PairingBijective ==
    /\ last.op \in {"Query::error", "GPMGroupQuery::error"} =>
           /\ last.out.variant \in QueryResponseVariants
           /\ \A q \in Queries \cup GroupQueries :
                  QueryKind(q) # QueryKind(last.self) =>
                      AnyQuery_error(q, last.error).variant # last.out.variant
    /\ last.op = "try_from" =>
           /\ \E q \in Queries \cup GroupQueries :
                  AnyQuery_error(q, "InvalidOperation").variant
                      = last.response.variant
           /\ \E inst \in TryFromInstances : last.response.variant \in inst[2]

\* The target types whose extraction takes the response
Accepting(response) ==
    {inst[1] : inst \in {i \in TryFromInstances :
                            try_from(i[2], response) # Err(WrongType)}}

\* C21: every QueryResponse variant but GetStoreCost is accepted by exactly
\* one extraction target type (GetMap and GetMapShell both by Map), and
\* GetStoreCost by none: every extraction from it, Token's included, returns
\* Err(WrongType) whether it holds Ok or Err.
C21_OneTargetButStoreCost ==
    last.op = "try_from" =>
        IF last.response.variant = "GetStoreCost"
        THEN /\ Accepting(last.response) = {}
             /\ last.out = Err(WrongType)
        ELSE /\ Cardinality(Accepting(last.response)) = 1
             /\ last.type \in Accepting(last.response) <=> last.out # Err(WrongType)
             /\ last.response.variant \in {"GetMap", "GetMapShell"} =>
                    Accepting(last.response) = {"Map"}

\* A Token was asked of a store cost that holds one, and refused.
C21_Witness ==
    /\ last.op = "try_from"
    /\ last.type = "Token"
    /\ last.response.variant = "GetStoreCost"
    /\ last.response.res.ok
    /\ last.out = Err(WrongType)

(***************************************************************************)
(* Client messages and the processing-error path (client/mod.rs).          *)
(***************************************************************************)

\* How many MessageIds there are
MaxIds == 3

MessageIds == 1..MaxIds

\* Section public keys
Keys == {1, 2}

OptKeys == {None} \cup {Some(k) : k \in Keys}

OptErrors == {None} \cup {Some(e) : e \in Errors}

\* ProcessMsg: its variants with the fields each declares; body stands for the
\* variant's payload (cmd, query, event, response, error or result)
ProcessMsgsWith(ids, causes) ==
    [variant : {"Cmd", "Query", "NodeCmd", "NodeQuery"},
     body : Payloads, id : ids]
        \cup
    [variant : {"Event", "QueryResponse", "CmdError", "NodeCmdError", "NodeEvent",
                "NodeQueryResponse"},
     body : Payloads, id : ids, correlation_id : causes]
        \cup
    [variant : {"NodeCmdResult"},
     body : Payloads, id : ids, target_section_pk : OptKeys]

ProcessMsgs == ProcessMsgsWith(MessageIds, MessageIds)

\* MessageId::new(): an id that no message has had before
MessageId_new(used) == MessageIds \ used

create_processing_error_NoSource(self, reason, new_id) ==
    [source_message |-> None, id |-> new_id, reason |-> None]

create_processing_error_SourceId(self, reason, new_id) ==
    [source_message |-> Some(self), id |-> self.id, reason |-> reason]

\* ProcessMsg::create_processing_error; new_id is what MessageId::new() returns
create_processing_error(self, reason, new_id) ==
    [source_message |-> Some(self), id |-> new_id, reason |-> reason]

\* What a match returns: the id of the arm taken, or that no arm covers the value
Matched(id) == [matched |-> TRUE, id |-> id]

NoArm == [matched |-> FALSE, id |-> 0]

\* The variants the match of ProcessMsg::id() and of Message::id() lists
IdArms ==
    {"Cmd", "Query", "Event", "QueryResponse", "CmdError", "NodeCmd",
     "NodeEvent", "NodeQuery", "NodeCmdError", "NodeQueryResponse"}

\* ProcessMsg::id()
ProcessMsg_id(self) ==
    IF self.variant \in IdArms THEN Matched(self.id) ELSE NoArm

\* ProcessingError::id()
ProcessingError_id(self) == self.id

Message_id_OfSource(self) ==
    CASE self.variant = "Process" /\ self.msg.variant \in IdArms -> Matched(self.msg.id)
      [] self.variant = "ProcessingError" ->
             IF self.err.source_message.some
             THEN Matched(self.err.source_message.val.id)
             ELSE Matched(self.err.id)
      [] OTHER -> NoArm

\* Message::id()
Message_id(self) ==
    CASE self.variant = "Process" /\ self.msg.variant \in IdArms -> Matched(self.msg.id)
      [] self.variant = "ProcessingError" -> Matched(self.err.id)
      [] OTHER -> NoArm

\* A sender originates a message under a new id, a response naming the id of
\* an earlier message as its cause; the recipient now holds it.
Originate ==
    \E id \in MessageId_new(issued) :
        \E m \in ProcessMsgsWith({id}, issued) :
            /\ msg' = Some(m)
            /\ issued' = issued \cup {id}
            /\ last' = [op |-> "originate", out |-> m]
            /\ UNCHANGED <<known, wire, errs, outbox, held>>

\* The recipient cannot process the message it holds and reports that.
CreateProcessingError ==
    /\ msg.some
    /\ \E reason \in OptErrors, id \in MessageId_new(issued) :
        LET e == create_processing_error(msg.val, reason, id) IN
        /\ errs' = Append(errs, e)
        /\ issued' = issued \cup {id}
        /\ last' = [op |-> "create_processing_error", self |-> msg.val,
                    reason |-> reason, out |-> e]
        /\ UNCHANGED <<known, wire, msg, outbox, held>>

\* The recipient asks the message that just reached it, as a client Message,
\* for its id.
ProcessMessageId ==
    /\ last.op = "originate"
    /\ LET self == [variant |-> "Process", msg |-> last.out]
       IN  last' = [op |-> "Message::id", self |-> self, out |-> Message_id(self)]
    /\ UNCHANGED <<known, wire, issued, msg, errs, outbox, held>>

\* The error just created is asked, as a client Message, for its id.
ErrorMessageId ==
    /\ last.op = "create_processing_error"
    /\ LET self == [variant |-> "ProcessingError", err |-> last.out]
       IN  last' = [op |-> "Message::id", self |-> self, out |-> Message_id(self)]
    /\ UNCHANGED <<known, wire, issued, msg, errs, outbox, held>>

NextProc ==
    \/ Originate
    \/ CreateProcessingError
    \/ ProcessMessageId
    \/ ErrorMessageId

SpecProc == Init /\ [][NextProc]_vars

\* C7: create_processing_error returns an error that embeds the whole message
\* it was called on and the reason it was given, and leaves the message as it was.
C7_EmbedsSourceAndReason ==
    last.op = "create_processing_error" =>
        /\ last.out.source_message = Some(last.self)
        /\ last.out.reason = last.reason
        /\ msg = Some(last.self)

\* An error built with a reason from a message that has a correlation id.
C7_Witness ==
    /\ last.op = "create_processing_error"
    /\ last.self.variant = "QueryResponse"
    /\ last.reason = Some("NoSuchData")
    /\ last.out.source_message.some

\* C8: the id of a ProcessingError differs from the id of the message it
\* embeds, and two errors made from the same message have different ids.
C8_FreshErrorId ==
    /\ \A i \in 1..Len(errs) :
        errs[i].source_message.some => errs[i].id # errs[i].source_message.val.id
    /\ \A i, j \in 1..Len(errs) :
        (i # j /\ errs[i].source_message = errs[j].source_message)
            => errs[i].id # errs[j].id

\* Two errors were made from one message.
C8_Witness ==
    /\ Len(errs) >= 2
    /\ errs[1].source_message.some
    /\ errs[1].source_message = errs[2].source_message

\* C15: MessageIds are unique: whatever the order in which senders originate
\* messages and recipients create errors, the id a new message gets is one no
\* message had before, and an id once given out stays given out.
C15_IdsUnique ==
    [][ /\ last'.op \in {"originate", "create_processing_error"} =>
              /\ last'.out.id \notin issued
              /\ last'.out.id \in issued'
        /\ issued \subseteq issued'
      ]_vars

\* Three ids were given out, to messages and to an error.
C15_Witness ==
    /\ Cardinality(issued) >= 3
    /\ Len(errs) >= 1
    /\ msg.some
    /\ errs[1].id # msg.val.id

\* C23: Message::id() of a ProcessingError is the error's own id, not the id
\* of the message embedded in it, and Message::id() of Process(p) is what
\* p.id() gives; so the error created from a message with id X has a
\* Message::id() other than X.
C23_ErrorOwnId ==
    last.op = "Message::id" =>
        IF last.self.variant = "ProcessingError"
        THEN /\ last.out = Matched(ProcessingError_id(last.self.err))
             /\ last.self.err.source_message.some
             /\ last.out.id # last.self.err.source_message.val.id
        ELSE last.out = ProcessMsg_id(last.self.msg)

\* The second error created from a message was asked for its id.
C23_Witness ==
    /\ last.op = "Message::id"
    /\ last.self.variant = "ProcessingError"
    /\ Len(errs) >= 2
    /\ last.self.err = errs[2]
    /\ last.out.matched
    /\ last.out.id # msg.val.id

(***************************************************************************)
(* The wire envelope (lib.rs, client/mod.rs, node/mod.rs, node/node_msg.rs *)
(* and the WireMsg serialisation they call).                               *)
(***************************************************************************)

\* The variants of ProcessMsg, NodeMessage and Error in declaration order
ProcessMsgVariants ==
    << "Cmd", "Query", "Event", "QueryResponse", "CmdError", "NodeCmd",
       "NodeCmdResult", "NodeCmdError", "NodeEvent", "NodeQuery", "NodeQueryResponse" >>

NodeMessageVariants ==
    << "NodeCmd", "NodeCmdError", "NodeEvent", "NodeQuery", "NodeQueryResponse" >>

ErrorVariants == << "InvalidOperation", "NoSuchData", "AccessDenied" >>

\* The variants that name the message that caused them
Correlated ==
    {"Event", "QueryResponse", "CmdError", "NodeCmdError", "NodeEvent", "NodeQueryResponse"}

\* The node variants that also name where the cause came from
WithOrigin == {"NodeCmdError", "NodeQueryResponse"}

\* SrcLocation of the causing message
Origins == {1, 2}

\* ProcessingError
ProcessingErrors ==
    [reason : OptErrors,
     source_message : {None} \cup {Some(m) : m \in ProcessMsgs},
     id : MessageIds]

\* client::Message
ClientMessages ==
    [variant : {"Process"}, msg : ProcessMsgs]
        \cup [variant : {"ProcessingError"}, err : ProcessingErrors]

\* node::NodeMessage
NodeMessages ==
    [variant : {"NodeCmd", "NodeQuery"},
     body : Payloads, id : MessageIds, target_section_pk : OptKeys]
        \cup
    [variant : {"NodeEvent"},
     body : Payloads, id : MessageIds, correlation_id : MessageIds,
     target_section_pk : OptKeys]
        \cup
    [variant : WithOrigin,
     body : Payloads, id : MessageIds, correlation_id : MessageIds,
     origin : Origins, target_section_pk : OptKeys]

\* infrastructure::Query and node::RoutingMessage, opaque here
InfrastructureQueries == [query : Payloads]

RoutingMessages == [routing : Payloads]

\* MessageType
MessageTypes ==
    {[type |-> "Ping"]}
        \cup [type : {"InfrastructureQuery"}, msg : InfrastructureQueries]
        \cup [type : {"RoutingMessage"}, msg : RoutingMessages]
        \cup [type : {"ClientMessage"}, msg : ClientMessages]
        \cup [type : {"NodeMessage"}, msg : NodeMessages]

\* crate::Error::FailedToParse
FailedToParse(what) == [kind |-> "FailedToParse", what |-> what]

IndexOf(seq, x) == CHOOSE i \in 1..Len(seq) : seq[i] = x

Drop(bs, n) == SubSeq(bs, n + 1, Len(bs))

Parsed(v, rest) == [ok |-> TRUE, val |-> v, rest |-> rest]

NotParsed == [ok |-> FALSE]

EncodeOptKey(o) == IF o.some THEN <<1, o.val>> ELSE <<0>>

DecodeOptKey(bs) ==
    IF Len(bs) >= 1 /\ bs[1] = 0 THEN Parsed(None, Drop(bs, 1))
    ELSE IF Len(bs) >= 2 /\ bs[1] = 1 THEN Parsed(Some(bs[2]), Drop(bs, 2))
    ELSE NotParsed

EncodeOptError(o) ==
    IF o.some THEN <<1, IndexOf(ErrorVariants, o.val)>> ELSE <<0>>

DecodeOptError(bs) ==
    IF Len(bs) >= 1 /\ bs[1] = 0 THEN Parsed(None, Drop(bs, 1))
    ELSE IF Len(bs) >= 2 /\ bs[1] = 1 /\ bs[2] \in 1..Len(ErrorVariants)
    THEN Parsed(Some(ErrorVariants[bs[2]]), Drop(bs, 2))
    ELSE NotParsed

\* A ProcessMsg as bytes: the variant's index, then its fields in order
EncodeProcessMsg(m) ==
    <<IndexOf(ProcessMsgVariants, m.variant), m.body, m.id>>
        \o (IF m.variant \in Correlated THEN <<m.correlation_id>>
            ELSE IF m.variant = "NodeCmdResult" THEN EncodeOptKey(m.target_section_pk)
            ELSE <<>>)

DecodeProcessMsg(bs) ==
    IF Len(bs) < 3 \/ bs[1] \notin 1..Len(ProcessMsgVariants) THEN NotParsed
    ELSE LET variant == ProcessMsgVariants[bs[1]]
             head == [variant |-> variant, body |-> bs[2], id |-> bs[3]]
             rest == Drop(bs, 3)
         IN  IF variant \in Correlated
             THEN IF Len(rest) >= 1
                  THEN Parsed([variant |-> variant, body |-> bs[2], id |-> bs[3],
                               correlation_id |-> rest[1]], Drop(rest, 1))
                  ELSE NotParsed
             ELSE IF variant = "NodeCmdResult"
             THEN LET k == DecodeOptKey(rest) IN
                  IF k.ok
                  THEN Parsed([variant |-> variant, body |-> bs[2], id |-> bs[3],
                               target_section_pk |-> k.val], k.rest)
                  ELSE NotParsed
             ELSE Parsed(head, rest)

\* A client Message as bytes: Process or ProcessingError, then its content
EncodeClientMessage(m) ==
    IF m.variant = "Process"
    THEN <<0>> \o EncodeProcessMsg(m.msg)
    ELSE <<1>> \o EncodeOptError(m.err.reason)
              \o (IF m.err.source_message.some
                  THEN <<1>> \o EncodeProcessMsg(m.err.source_message.val)
                  ELSE <<0>>)
              \o <<m.err.id>>

DecodeOptProcessMsg(bs) ==
    IF Len(bs) >= 1 /\ bs[1] = 0 THEN Parsed(None, Drop(bs, 1))
    ELSE IF Len(bs) >= 1 /\ bs[1] = 1
    THEN LET p == DecodeProcessMsg(Drop(bs, 1)) IN
         IF p.ok THEN Parsed(Some(p.val), p.rest) ELSE NotParsed
    ELSE NotParsed

DecodeClientMessage(bs) ==
    IF Len(bs) < 1 THEN NotParsed
    ELSE IF bs[1] = 0
    THEN LET p == DecodeProcessMsg(Drop(bs, 1)) IN
         IF p.ok
         THEN Parsed([variant |-> "Process", msg |-> p.val], p.rest)
         ELSE NotParsed
    ELSE IF bs[1] = 1
    THEN LET r == DecodeOptError(Drop(bs, 1)) IN
         IF ~r.ok THEN NotParsed
         ELSE LET src == DecodeOptProcessMsg(r.rest) IN
              IF ~src.ok \/ Len(src.rest) < 1 THEN NotParsed
              ELSE Parsed([variant |-> "ProcessingError",
                           err |-> [reason |-> r.val, source_message |-> src.val,
                                    id |-> src.rest[1]]],
                          Drop(src.rest, 1))
    ELSE NotParsed

\* A NodeMessage as bytes
EncodeNodeMessage(m) ==
    <<IndexOf(NodeMessageVariants, m.variant), m.body, m.id>>
        \o (IF m.variant \in Correlated THEN <<m.correlation_id>> ELSE <<>>)
        \o (IF m.variant \in WithOrigin THEN <<m.origin>> ELSE <<>>)
        \o EncodeOptKey(m.target_section_pk)

DecodeNodeMessage(bs) ==
    IF Len(bs) < 3 \/ bs[1] \notin 1..Len(NodeMessageVariants) THEN NotParsed
    ELSE LET variant == NodeMessageVariants[bs[1]]
             rest == Drop(bs, 3)
         IN  IF variant \in WithOrigin
             THEN LET k == DecodeOptKey(Drop(rest, 2)) IN
                  IF Len(rest) >= 2 /\ k.ok
                  THEN Parsed([variant |-> variant, body |-> bs[2], id |-> bs[3],
                               correlation_id |-> rest[1], origin |-> rest[2],
                               target_section_pk |-> k.val], k.rest)
                  ELSE NotParsed
             ELSE IF variant \in Correlated
             THEN LET k == DecodeOptKey(Drop(rest, 1)) IN
                  IF Len(rest) >= 1 /\ k.ok
                  THEN Parsed([variant |-> variant, body |-> bs[2], id |-> bs[3],
                               correlation_id |-> rest[1],
                               target_section_pk |-> k.val], k.rest)
                  ELSE NotParsed
             ELSE LET k == DecodeOptKey(rest) IN
                  IF k.ok
                  THEN Parsed([variant |-> variant, body |-> bs[2], id |-> bs[3],
                               target_section_pk |-> k.val], k.rest)
                  ELSE NotParsed

\* The discriminant of the envelope
KindCode(type) ==
    CASE type = "Ping" -> 0
      [] type = "InfrastructureQuery" -> 1
      [] type = "ClientMessage" -> 2
      [] type = "NodeMessage" -> 3
      [] type = "RoutingMessage" -> 4

\* The envelope's header: the discriminant, then the destination when one is given
WireMsg_header(type, info) ==
    <<KindCode(type)>>
        \o (IF info.some
            THEN <<1>> \o info.val.dest.sha3 \o <<info.val.dest_section_pk>>
                       \o EncodeOptKey(info.val.src_section_pk)
            ELSE <<0>>)

DecodeHeader(bs) ==
    IF Len(bs) >= 2 /\ bs[2] = 0 THEN Parsed(bs[1], Drop(bs, 2))
    ELSE IF Len(bs) >= 4 /\ bs[2] = 1
    THEN LET k == DecodeOptKey(Drop(bs, 4)) IN
         IF k.ok THEN Parsed(bs[1], k.rest) ELSE NotParsed
    ELSE NotParsed

WireMsg_new_ping_msg_serialize == Ok(WireMsg_header("Ping", None))

WireMsg_serialize_infrastructure_query(query) ==
    Ok(WireMsg_header("InfrastructureQuery", None) \o <<query.query>>)

WireMsg_serialize_routing_msg(m) ==
    Ok(WireMsg_header("RoutingMessage", None) \o <<m.routing>>)

WireMsg_serialize_client_msg(m, info) ==
    Ok(WireMsg_header("ClientMessage", info) \o EncodeClientMessage(m))

WireMsg_serialize_node_msg(m, info) ==
    Ok(WireMsg_header("NodeMessage", info) \o EncodeNodeMessage(m))

\* WireMsg::deserialize: the message the bytes hold; the envelope's destination
\* and keys are read and dropped
WireMsg_deserialize(bytes) ==
    LET h == DecodeHeader(bytes) IN
    IF ~h.ok THEN Err(FailedToParse("bytes as a wire message header"))
    ELSE IF h.val = 0
    THEN IF h.rest = <<>> THEN Ok([type |-> "Ping"])
         ELSE Err(FailedToParse("bytes as a ping"))
    ELSE IF h.val = 1
    THEN IF Len(h.rest) = 1
         THEN Ok([type |-> "InfrastructureQuery", msg |-> [query |-> h.rest[1]]])
         ELSE Err(FailedToParse("bytes as an infrastructure query"))
    ELSE IF h.val = 4
    THEN IF Len(h.rest) = 1
         THEN Ok([type |-> "RoutingMessage", msg |-> [routing |-> h.rest[1]]])
         ELSE Err(FailedToParse("bytes as a routing message"))
    ELSE IF h.val = 2
    THEN LET p == DecodeClientMessage(h.rest) IN
         IF p.ok /\ p.rest = <<>> THEN Ok([type |-> "ClientMessage", msg |-> p.val])
         ELSE Err(FailedToParse("bytes as a client message payload"))
    ELSE IF h.val = 3
    THEN LET p == DecodeNodeMessage(h.rest) IN
         IF p.ok /\ p.rest = <<>> THEN Ok([type |-> "NodeMessage", msg |-> p.val])
         ELSE Err(FailedToParse("bytes as a node message payload"))
    ELSE Err(FailedToParse("bytes as a known message kind"))

\* MessageType::serialize
MessageType_serialize(self) ==
    CASE self.type = "Ping" -> WireMsg_new_ping_msg_serialize
      [] self.type = "InfrastructureQuery" -> WireMsg_serialize_infrastructure_query(self.msg)
      [] self.type = "ClientMessage" -> WireMsg_serialize_client_msg(self.msg, None)
      [] self.type = "NodeMessage" -> WireMsg_serialize_node_msg(self.msg, None)
      [] self.type = "RoutingMessage" -> WireMsg_serialize_routing_msg(self.msg)

Message_serialize_DestOnly(self, dest, dest_section_pk) ==
    Ok(<<KindCode("ClientMessage"), 1>> \o dest.sha3 \o EncodeClientMessage(self))

\* client Message::serialize
Message_serialize(self, dest, dest_section_pk) ==
    WireMsg_serialize_client_msg(
        self, Some([dest |-> dest, dest_section_pk |-> dest_section_pk,
                    src_section_pk |-> None]))

Message_from_RejectsClient(bytes) ==
    LET deserialized == WireMsg_deserialize(bytes) IN
    IF ~deserialized.ok THEN Err(deserialized.err)
    ELSE IF deserialized.val.type # "ClientMessage" /\ deserialized.val.type # "Ping"
    THEN Ok(deserialized.val.msg)
    ELSE Err(FailedToParse("bytes as a client message"))

\* client Message::from
Message_from(bytes) ==
    LET deserialized == WireMsg_deserialize(bytes) IN
    IF ~deserialized.ok THEN Err(deserialized.err)
    ELSE IF deserialized.val.type = "ClientMessage"
    THEN Ok(deserialized.val.msg)
    ELSE Err(FailedToParse("bytes as a client message"))

\* NodeMessage::serialize
NodeMessage_serialize(self) == WireMsg_serialize_node_msg(self, None)

NodeMessage_from_AcceptsClient(bytes) ==
    LET deserialized == WireMsg_deserialize(bytes) IN
    IF ~deserialized.ok THEN Err(deserialized.err)
    ELSE IF deserialized.val.type \in {"NodeMessage", "ClientMessage"}
    THEN Ok(deserialized.val.msg)
    ELSE Err(FailedToParse("bytes as a node message"))

\* NodeMessage::from
NodeMessage_from(bytes) ==
    LET deserialized == WireMsg_deserialize(bytes) IN
    IF ~deserialized.ok THEN Err(deserialized.err)
    ELSE IF deserialized.val.type = "NodeMessage"
    THEN Ok(deserialized.val.msg)
    ELSE Err(FailedToParse("bytes as a node message"))

\* NodeMsg::from: it looks for MessageType::Node, which MessageType does not
\* declare and deserialize never returns
NodeMsg_from(bytes) ==
    LET deserialized == WireMsg_deserialize(bytes) IN
    IF ~deserialized.ok THEN Err(deserialized.err)
    ELSE IF deserialized.val.type = "Node"
    THEN Ok(deserialized.val.msg)
    ELSE Err(FailedToParse("bytes as a node command message"))

NodeMessage_id_NeedsKey(self) ==
    IF self.target_section_pk.some THEN Matched(self.id) ELSE NoArm

\* NodeMessage::id()
NodeMessage_id(self) ==
    IF self.variant \in {"NodeCmd", "NodeCmdError", "NodeEvent", "NodeQuery",
                         "NodeQueryResponse"}
    THEN Matched(self.id)
    ELSE NoArm

\* A sender holds any one message of the five channels.
InitWire ==
    /\ last = Idle
    /\ known = None
    /\ wire = None
    /\ issued = {}
    /\ msg = None
    /\ errs = <<>>
    /\ outbox \in {Some(m) : m \in MessageTypes}
    /\ held = None

Sent(bytes, m) == Some([bytes |-> bytes, sent |-> m, intact |-> TRUE])

\* The sender serializes its message as a MessageType.
MessageTypeSerialize ==
    /\ outbox.some
    /\ wire' = Sent(MessageType_serialize(outbox.val).val, outbox.val)
    /\ outbox' = None
    /\ last' = [op |-> "MessageType::serialize"]
    /\ UNCHANGED <<known, issued, msg, errs, held>>

\* A client serializes its message for a destination and its section key.
MessageSerialize ==
    /\ outbox.some
    /\ outbox.val.type = "ClientMessage"
    /\ \E dest \in XorNames, pk \in Keys :
        wire' = Sent(Message_serialize(outbox.val.msg, dest, pk).val, outbox.val)
    /\ outbox' = None
    /\ last' = [op |-> "Message::serialize"]
    /\ UNCHANGED <<known, issued, msg, errs, held>>

\* A node serializes its message.
NodeMessageSerialize ==
    /\ outbox.some
    /\ outbox.val.type = "NodeMessage"
    /\ wire' = Sent(NodeMessage_serialize(outbox.val.msg).val, outbox.val)
    /\ outbox' = None
    /\ last' = [op |-> "NodeMessage::serialize"]
    /\ UNCHANGED <<known, issued, msg, errs, held>>

\* The transport loses the last byte, or garbles the discriminant.
Corrupt ==
    /\ wire.some
    /\ wire.val.intact
    /\ \E bytes \in { SubSeq(wire.val.bytes, 1, Len(wire.val.bytes) - 1),
                      [wire.val.bytes EXCEPT ![1] = 9] } :
        wire' = Some([bytes |-> bytes, sent |-> wire.val.sent, intact |-> FALSE])
    /\ last' = [op |-> "corrupt"]
    /\ UNCHANGED <<known, issued, msg, errs, outbox, held>>

Received(op, out) ==
    [op |-> op, bytes |-> wire.val.bytes, sent |-> wire.val.sent,
     intact |-> wire.val.intact, out |-> out]

\* A recipient reads the bytes as whatever message they hold.
Deserialize ==
    /\ wire.some
    /\ last' = Received("WireMsg::deserialize", WireMsg_deserialize(wire.val.bytes))
    /\ wire' = None
    /\ UNCHANGED <<known, issued, msg, errs, outbox, held>>

\* A recipient reads the bytes as a client message.
MessageFrom ==
    /\ wire.some
    /\ last' = Received("Message::from", Message_from(wire.val.bytes))
    /\ wire' = None
    /\ UNCHANGED <<known, issued, msg, errs, outbox, held>>

\* A recipient reads the bytes as a node message.
NodeMessageFrom ==
    /\ wire.some
    /\ last' = Received("NodeMessage::from", NodeMessage_from(wire.val.bytes))
    /\ wire' = None
    /\ UNCHANGED <<known, issued, msg, errs, outbox, held>>

\* A recipient reads the bytes as a node command message.
NodeMsgFrom ==
    /\ wire.some
    /\ last' = Received("NodeMsg::from", NodeMsg_from(wire.val.bytes))
    /\ wire' = None
    /\ UNCHANGED <<known, issued, msg, errs, outbox, held>>

\* The client serializes the message it sent again, for a destination and
\* section key of its choice; what the first copy decoded to is kept.
MessageSerializeAgain ==
    /\ wire = None
    /\ known = None
    /\ last.op = "Message::from"
    /\ last.intact
    /\ last.sent.type = "ClientMessage"
    /\ \E dest \in XorNames, pk \in Keys :
        wire' = Sent(Message_serialize(last.sent.msg, dest, pk).val, last.sent)
    /\ known' = Some([bytes |-> last.bytes, out |-> last.out])
    /\ last' = [op |-> "Message::serialize"]
    /\ UNCHANGED <<issued, msg, errs, outbox, held>>

\* A node whose section key is recipient_pk asks the node message it decoded
\* for its id.
DecodedNodeMessageId ==
    /\ last.op = "NodeMessage::from"
    /\ last.out.ok
    /\ \E recipient_pk \in Keys :
        last' = [op |-> "NodeMessage::id", self |-> last.out.val,
                 recipient_pk |-> recipient_pk,
                 out |-> NodeMessage_id(last.out.val)]
    /\ UNCHANGED <<known, wire, issued, msg, errs, outbox, held>>

NextWire ==
    \/ MessageTypeSerialize
    \/ MessageSerialize
    \/ NodeMessageSerialize
    \/ Corrupt
    \/ Deserialize
    \/ MessageFrom
    \/ NodeMessageFrom
    \/ NodeMsgFrom
    \/ MessageSerializeAgain
    \/ DecodedNodeMessageId

SpecWire == InitWire /\ [][NextWire]_vars

Decodes == {"WireMsg::deserialize", "Message::from", "NodeMessage::from", "NodeMsg::from"}

\* C5: the bytes a message of any of the five channels serializes to, under any
\* destination and section key, deserialize to that message; Message::from
\* gives a client message back and NodeMessage::from a node message.
C5_RoundTrip ==
    (last.op \in Decodes /\ last.intact) =>
        /\ last.op = "WireMsg::deserialize" => last.out = Ok(last.sent)
        /\ (last.op = "Message::from" /\ last.sent.type = "ClientMessage")
               => last.out = Ok(last.sent.msg)
        /\ (last.op = "NodeMessage::from" /\ last.sent.type = "NodeMessage")
               => last.out = Ok(last.sent.msg)

\* A processing error that embeds its source came back from bytes that name a
\* destination.
C5_Witness ==
    /\ last.op = "Message::from"
    /\ last.intact
    /\ last.sent.type = "ClientMessage"
    /\ last.sent.msg.variant = "ProcessingError"
    /\ last.sent.msg.err.source_message.some
    /\ last.bytes[2] = 1
    /\ last.out.ok

\* What the bytes hold is something other than the given type
HoldsOther(bytes, type) ==
    /\ WireMsg_deserialize(bytes).ok
    /\ WireMsg_deserialize(bytes).val.type # type

\* C6: bytes that hold a message of another channel are rejected, never
\* accepted: by Message::from as not a client message, by NodeMessage::from and
\* NodeMsg::from as not a node message.
C6_CrossChannelRejected ==
    /\ (last.op = "Message::from" /\ HoldsOther(last.bytes, "ClientMessage"))
           => last.out = Err(FailedToParse("bytes as a client message"))
    /\ (last.op = "NodeMessage::from" /\ HoldsOther(last.bytes, "NodeMessage"))
           => last.out = Err(FailedToParse("bytes as a node message"))
    /\ (last.op = "NodeMsg::from" /\ HoldsOther(last.bytes, "NodeMessage"))
           => last.out = Err(FailedToParse("bytes as a node command message"))

\* The bytes of a client message were read as a node message.
C6_Witness ==
    /\ last.op = "NodeMessage::from"
    /\ last.intact
    /\ last.sent.type = "ClientMessage"
    /\ ~last.out.ok

\* C18: every NodeMessage variant has an optional target_section_pk, and a
\* node message decodes and gives its id whether that key is absent, equal to
\* the recipient's section key or different from it.
C18_TargetKeyOptional ==
    /\ outbox.some /\ outbox.val.type = "NodeMessage" =>
           /\ outbox.val.msg.variant \in
                  {NodeMessageVariants[i] : i \in DOMAIN NodeMessageVariants}
           /\ outbox.val.msg.target_section_pk \in OptKeys
    /\ last.op = "NodeMessage::from" /\ last.intact
           /\ last.sent.type = "NodeMessage"
       => last.out = Ok(last.sent.msg)
    /\ last.op = "NodeMessage::id" => last.out = Matched(last.self.id)

\* A node got the id of a message addressed under a key that is not its own.
C18_Witness ==
    /\ last.op = "NodeMessage::id"
    /\ last.self.variant = "NodeQueryResponse"
    /\ last.self.target_section_pk = Some(1)
    /\ last.recipient_pk = 2
    /\ last.out.matched

\* C19: what a client message decodes to does not depend on the envelope:
\* serialized for any two destinations and section keys, both copies decode
\* through Message::from to the same value, the message itself.
C19_EnvelopeIndependent ==
    known.some /\ last.op = "Message::from" /\ last.intact =>
        /\ last.out = known.val.out
        /\ last.out = Ok(last.sent.msg)

\* Two copies with different envelopes were decoded.
C19_Witness ==
    /\ known.some
    /\ last.op = "Message::from"
    /\ last.intact
    /\ last.bytes # known.val.bytes
    /\ last.out.ok
    /\ last.out.val.variant = "ProcessingError"

(***************************************************************************)
(* Protocol values and the read-only operations on them: a holder obtains  *)
(* one value (a GroupConfig, a query, a client message or a node message)  *)
(* and calls its operations.  The values are independent of each other, so *)
(* one value is followed at a time.                                        *)
(***************************************************************************)

\* Message::get_process()
Message_get_process(self) ==
    IF self.variant = "Process" THEN Some(self.msg) ELSE None

\* Message::get_processing_error()
Message_get_processing_error(self) ==
    IF self.variant = "ProcessingError" THEN Some(self.err) ELSE None

Holding(kind) == held.some /\ held.val.kind = kind

\* Every MessageId a client message mentions
IdsOf(m) ==
    LET of(p) == {p.id} \cup (IF "correlation_id" \in DOMAIN p
                             THEN {p.correlation_id} ELSE {})
    IN  IF m.variant = "Process"
        THEN of(m.msg)
        ELSE {m.err.id} \cup (IF m.err.source_message.some
                              THEN of(m.err.source_message.val) ELSE {})

\* The holder receives or builds a client message.
HoldMessage ==
    /\ held = None
    /\ \E m \in ClientMessages :
           /\ held' = Some([kind |-> "Message", val |-> m])
           /\ issued' = IdsOf(m)
           /\ last' = [op |-> "hold", out |-> m]
    /\ UNCHANGED <<known, wire, msg, errs, outbox>>

\* The holder receives or builds a node message.
HoldNodeMessage ==
    /\ held = None
    /\ \E m \in NodeMessages :
           /\ held' = Some([kind |-> "NodeMessage", val |-> m])
           /\ last' = [op |-> "hold", out |-> m]
    /\ UNCHANGED <<known, wire, issued, msg, errs, outbox>>

\* A call on the held value that takes &self and returns out
Called(op, out) ==
    /\ last' = [op |-> op, self |-> held.val.val, out |-> out]
    /\ UNCHANGED <<known, wire, issued, msg, errs, outbox, held>>

HeldMessageId ==
    /\ Holding("Message")
    /\ Called("Message::id", Message_id(held.val.val))

HeldProcessMsgId ==
    /\ Holding("Message")
    /\ held.val.val.variant = "Process"
    /\ Called("ProcessMsg::id", ProcessMsg_id(held.val.val.msg))

HeldGetProcess ==
    /\ Holding("Message")
    /\ Called("Message::get_process", Message_get_process(held.val.val))

HeldGetProcessingError ==
    /\ Holding("Message")
    /\ Called("Message::get_processing_error",
              Message_get_processing_error(held.val.val))

HeldCreateProcessingError ==
    /\ Holding("Message")
    /\ held.val.val.variant = "Process"
    /\ \E reason \in OptErrors, new_id \in MessageId_new(issued) :
           /\ last' = [op |-> "create_processing_error", self |-> held.val.val,
                       reason |-> reason,
                       out |-> create_processing_error(held.val.val.msg,
                                                       reason, new_id)]
           /\ issued' = issued \cup {new_id}
           /\ UNCHANGED <<known, wire, msg, errs, outbox, held>>

HeldNodeMessageId ==
    /\ Holding("NodeMessage")
    /\ Called("NodeMessage::id", NodeMessage_id(held.val.val))

\* GroupConfig::id(), name(), owner() and get_settings()
GroupConfig_id(self) == self.id

GroupConfig_name(self) == self.name

GroupConfig_owner(self) == self.owner

GroupConfig_get_settings_TypeChecked(self, msg_type) ==
    IF msg_type \in DOMAIN self.msgs /\ self.msgs[msg_type].msg_type = msg_type
    THEN Some(self.msgs[msg_type])
    ELSE None

GroupConfig_get_settings(self, msg_type) ==
    IF msg_type \in DOMAIN self.msgs THEN Some(self.msgs[msg_type]) ELSE None

\* GroupConfig's derived Deserialize: the four fields are taken as they come,
\* without a call of new
GroupConfig_deserialize(fields) ==
    Ok([id |-> fields.id, name |-> fields.name, owner |-> fields.owner,
        msgs |-> fields.msgs])

\* The field values a serialized GroupConfig can hold
GroupConfigFields ==
    UNION {[id : XorNames \cup {XorName_from_content(<<GroupIdTag, n>>)},
            name : {n}, owner : Owners, msgs : MsgMaps] : n \in Names}

\* DataQuery::dst_address(): the address of the data the query reads
DataQuery_dst_address(q) == q.name

Query_dst_address_OfBytes(self) ==
    IF self.variant = "Data"
    THEN DataQuery_dst_address(self.q)
    ELSE [sha3 |-> <<self.bytes>>]

\* Query::dst_address()
Query_dst_address(self) ==
    IF self.variant = "Data"
    THEN DataQuery_dst_address(self.q)
    ELSE self.data_name

\* GPMGroupQuery::dst_address()
GPMGroupQuery_dst_address(self) == self.group_id

\* The holder builds a group configuration with GroupConfig::new.
HoldConfig ==
    /\ held = None
    /\ \E name \in Names, owner \in Owners, msgs \in MsgMaps :
           LET r == GroupConfig_new(name, owner, msgs)
           IN  /\ held' = IF r.ok
                          THEN Some([kind |-> "GroupConfig", val |-> r.val])
                          ELSE None
               /\ last' = [op |-> "GroupConfig::new", name |-> name,
                           owner |-> owner, msgs |-> msgs, out |-> r]
               /\ known' = IF r.ok
                           THEN Some([name |-> name, owner |-> owner, msgs |-> msgs])
                           ELSE None
    /\ UNCHANGED <<wire, issued, msg, errs, outbox>>

\* The holder decodes a group configuration it was sent (as the payload of
\* GPMGroupCmd::SetOrCreate or of a GetConfig response).
ReceiveConfig ==
    /\ held = None
    /\ \E fields \in GroupConfigFields :
           LET r == GroupConfig_deserialize(fields)
           IN  /\ held' = Some([kind |-> "GroupConfig", val |-> r.val])
               /\ last' = [op |-> "GroupConfig::deserialize", fields |-> fields,
                           out |-> r]
    /\ UNCHANGED <<known, wire, issued, msg, errs, outbox>>

\* The holder receives or builds a query.
HoldQuery ==
    /\ held = None
    /\ \E q \in Queries :
           /\ held' = Some([kind |-> "Query", val |-> q])
           /\ last' = [op |-> "hold", out |-> q]
    /\ UNCHANGED <<known, wire, issued, msg, errs, outbox>>

HoldGroupQuery ==
    /\ held = None
    /\ \E q \in GroupQueries :
           /\ held' = Some([kind |-> "GPMGroupQuery", val |-> q])
           /\ last' = [op |-> "hold", out |-> q]
    /\ UNCHANGED <<known, wire, issued, msg, errs, outbox>>

HeldConfigId ==
    /\ Holding("GroupConfig")
    /\ Called("GroupConfig::id", GroupConfig_id(held.val.val))

HeldConfigName ==
    /\ Holding("GroupConfig")
    /\ Called("GroupConfig::name", GroupConfig_name(held.val.val))

HeldConfigOwner ==
    /\ Holding("GroupConfig")
    /\ Called("GroupConfig::owner", GroupConfig_owner(held.val.val))

HeldConfigGetSettings_Takes ==
    /\ Holding("GroupConfig")
    /\ \E msg_type \in MsgTypes :
           LET self == held.val.val
               rest == [k \in DOMAIN self.msgs \ {msg_type} |-> self.msgs[k]]
           IN  /\ last' = [op |-> "GroupConfig::get_settings", self |-> self,
                           msg_type |-> msg_type,
                           out |-> GroupConfig_get_settings(self, msg_type)]
               /\ held' = Some([kind |-> "GroupConfig",
                                val |-> [self EXCEPT !.msgs = rest]])
               /\ UNCHANGED <<known, wire, issued, msg, errs, outbox>>

HeldConfigGetSettings ==
    /\ Holding("GroupConfig")
    /\ \E msg_type \in MsgTypes :
           /\ last' = [op |-> "GroupConfig::get_settings", self |-> held.val.val,
                       msg_type |-> msg_type,
                       out |-> GroupConfig_get_settings(held.val.val, msg_type)]
           /\ UNCHANGED <<known, wire, issued, msg, errs, outbox, held>>

HeldQueryError ==
    /\ Holding("Query")
    /\ \E e \in Errors :
           /\ last' = [op |-> "Query::error", self |-> held.val.val, error |-> e,
                       out |-> Query_error(held.val.val, e)]
           /\ UNCHANGED <<known, wire, issued, msg, errs, outbox, held>>

HeldQueryDstAddress ==
    /\ Holding("Query")
    /\ Called("Query::dst_address", Query_dst_address(held.val.val))

HeldGroupQueryDstAddress ==
    /\ Holding("GPMGroupQuery")
    /\ Called("GPMGroupQuery::dst_address", GPMGroupQuery_dst_address(held.val.val))

NextValues ==
    \/ HoldMessage
    \/ HoldNodeMessage
    \/ HoldConfig
    \/ ReceiveConfig
    \/ HoldQuery
    \/ HoldGroupQuery
    \/ HeldMessageId
    \/ HeldProcessMsgId
    \/ HeldGetProcess
    \/ HeldGetProcessingError
    \/ HeldCreateProcessingError
    \/ HeldNodeMessageId
    \/ HeldConfigId
    \/ HeldConfigName
    \/ HeldConfigOwner
    \/ HeldConfigGetSettings
    \/ HeldQueryError
    \/ HeldQueryDstAddress
    \/ HeldGroupQueryDstAddress

SpecValues == Init /\ [][NextValues]_vars

\* The variants that bear a response, a result, an event or an error
ResponseBearing ==
    {"Event", "QueryResponse", "CmdError", "NodeCmdResult", "NodeCmdError",
     "NodeEvent", "NodeQueryResponse"}

\* C12: every message variant that bears a response, a result, an event or
\* an error, of ProcessMsg and of NodeMessage, has a correlation_id field
\* naming the message that caused it, beside its own id.
C12_CorrelationIdCarried ==
    /\ Holding("Message") /\ held.val.val.variant = "Process"
           /\ held.val.val.msg.variant \in ResponseBearing
       => {"id", "correlation_id"} \subseteq DOMAIN held.val.val.msg
    /\ Holding("NodeMessage") /\ held.val.val.variant \in ResponseBearing
       => {"id", "correlation_id"} \subseteq DOMAIN held.val.val

\* C13: id() is total: for every ProcessMsg variant and for
\* Message::ProcessingError, ProcessMsg::id() and Message::id() take an arm
\* and return the value's own id.
C13_IdTotal ==
    /\ last.op = "ProcessMsg::id" => last.out = Matched(last.self.msg.id)
    /\ last.op = "Message::id" =>
           last.out = Matched(IF last.self.variant = "Process"
                              THEN last.self.msg.id
                              ELSE last.self.err.id)

\* The requests that differ from q in nothing but the byte count
SameButBytes(q) ==
    {r \in Queries : /\ r.variant = "GetStoreCost"
                     /\ q.variant = "GetStoreCost"
                     /\ r.data_name = q.data_name}

\* C14: dst_address() is a function of the request alone: GetStoreCost
\* resolves to its data_name whatever its bytes, Data(q) to q.dst_address(),
\* GetConfig(g) to g; a repeated call on an equal request gives the same
\* address, and the call changes nothing.
C14_DstAddressPure ==
    [][ /\ last'.op = "Query::dst_address" =>
              /\ last'.out = IF last'.self.variant = "Data"
                             THEN DataQuery_dst_address(last'.self.q)
                             ELSE last'.self.data_name
              /\ \A r \in SameButBytes(last'.self) :
                     Query_dst_address(r) = last'.out
              /\ UNCHANGED <<known, wire, issued, msg, errs, outbox, held>>
        /\ last'.op = "GPMGroupQuery::dst_address" =>
              /\ last'.out = last'.self.group_id
              /\ UNCHANGED <<known, wire, issued, msg, errs, outbox, held>>
        /\ /\ last'.op \in {"Query::dst_address", "GPMGroupQuery::dst_address"}
           /\ last.op = last'.op
           /\ last.self = last'.self
           => last'.out = last.out
      ]_vars

\* The address of a store-cost request of one byte was resolved.
C14_Witness ==
    /\ last.op = "Query::dst_address"
    /\ last.self.variant = "GetStoreCost"
    /\ last.self.bytes = 1
    /\ last.out = last.self.data_name
    /\ held = Some([kind |-> "Query", val |-> last.self])

\* C16: every GroupConfig value that exists, however it was produced, has a
\* name of at least 3 bytes and at least one message setting.
C16_ConfigValid ==
    Holding("GroupConfig") =>
        /\ Len(held.val.val.name) >= 3
        /\ DOMAIN held.val.val.msgs # {}

\* The operations that read the value they are called on
ReadOps ==
    {"GroupConfig::id", "GroupConfig::name", "GroupConfig::owner",
     "GroupConfig::get_settings", "Query::error", "Query::dst_address",
     "GPMGroupQuery::dst_address", "Message::id", "ProcessMsg::id",
     "Message::get_process", "Message::get_processing_error",
     "create_processing_error", "NodeMessage::id"}

\* C20: protocol values are never changed in place: once a value exists (a
\* GroupConfig after new succeeded, a query, a message), no call of id(),
\* name(), owner(), get_settings(), error(), dst_address(), get_process(),
\* get_processing_error() or create_processing_error() changes any field of
\* the value it is called on.
C20_NeverMutated ==
    [][ held.some =>
            /\ held' = held
            /\ last'.op \in ReadOps
            /\ last'.self = held.val.val
      ]_vars

\* A configuration built by new was asked for the settings of a message type
\* it has, and still has them.
C20_Witness ==
    /\ Holding("GroupConfig")
    /\ last.op = "GroupConfig::get_settings"
    /\ last.out.some
    /\ Len(held.val.val.name) >= 3
    /\ DOMAIN held.val.val.msgs = MsgTypes
    /\ held.val.val = last.self

\* C22: for a GroupConfig built by new(name, owner, settings) and any
\* msg_type k, get_settings(k) returns Some of the value passed in under k
\* when k is a key of settings, whatever msg_type that value names, and None
\* when it is not.
C22_GetSettings ==
    last.op = "GroupConfig::get_settings" /\ known.some =>
        last.out = IF last.msg_type \in DOMAIN known.val.msgs
                   THEN Some(known.val.msgs[last.msg_type])
                   ELSE None

\* The settings stored under key 1 name message type 2, and are returned.
C22_Witness ==
    /\ last.op = "GroupConfig::get_settings"
    /\ known.some
    /\ last.msg_type = 1
    /\ last.out.some
    /\ last.out.val.msg_type = 2

====
